---------------------------- MODULE Spec2Model ----------------------------
(***************************************************************************)
(* Model of the MAX31865 RTD library:                                      *)
(*   - rtd_calculator.c : resistance <-> temperature conversions for       *)
(*     platinum, copper and nickel sensors (GOST 6651-2009);               *)
(*   - MAX31865.c       : the SPI driver (Init, Configuration_info,        *)
(*     Get_Resistance) with its global fault flag.                         *)
(*                                                                         *)
(* C doubles are modelled as signed decimal fixed-point numbers with 16    *)
(* fractional digits, held as little-endian sequences of base-10^4 limbs   *)
(* (TLC integers are 32 bits wide).  A non-finite double (inf, NaN) is the *)
(* value NonFinite, which every arithmetic operation propagates.           *)
(***************************************************************************)
EXTENDS Integers, Sequences, FiniteSets, TLC

(***************************************************************************)
(* Magnitudes: little-endian sequences of limbs in 0..Base-1, normalised   *)
(* (no most-significant zero limb; zero is the empty sequence).            *)
(***************************************************************************)
Base == 10 ^ 4

FracZeros == <<0, 0, 0, 0>>

RECURSIVE Norm(_)
Norm(s) ==
  IF s = <<>> THEN <<>>
  ELSE IF s[Len(s)] = 0 THEN Norm(SubSeq(s, 1, Len(s) - 1))
  ELSE s

Limb(a) == IF a = <<>> THEN 0 ELSE Head(a)

Rest(a) == IF a = <<>> THEN <<>> ELSE Tail(a)

RECURSIVE MagAdd(_, _, _)
MagAdd(a, b, c) ==
  IF a = <<>> /\ b = <<>>
  THEN (IF c = 0 THEN <<>> ELSE <<c>>)
  ELSE LET x == Limb(a) + Limb(b) + c
       IN  <<x % Base>> \o MagAdd(Rest(a), Rest(b), x \div Base)

\* a - b - w for a >= b + w, before normalisation
RECURSIVE MagSubRaw(_, _, _)
MagSubRaw(a, b, w) ==
  IF a = <<>> THEN <<>>
  ELSE LET x == Head(a) - Limb(b) - w
       IN  IF x < 0
           THEN <<x + Base>> \o MagSubRaw(Tail(a), Rest(b), 1)
           ELSE <<x>> \o MagSubRaw(Tail(a), Rest(b), 0)

MagSub(a, b) == Norm(MagSubRaw(a, b, 0))

\* -1, 0, 1 as a < b, a = b, a > b (normalised magnitudes)
RECURSIVE MagCmp(_, _)
MagCmp(a, b) ==
  IF Len(a) # Len(b) THEN (IF Len(a) < Len(b) THEN -1 ELSE 1)
  ELSE IF a = <<>> THEN 0
  ELSE LET n == Len(a)
       IN  IF a[n] # b[n] THEN (IF a[n] < b[n] THEN -1 ELSE 1)
           ELSE MagCmp(SubSeq(a, 1, n - 1), SubSeq(b, 1, n - 1))

\* a * k + c for a limb-sized k, before normalisation
RECURSIVE MagMulSmallRaw(_, _, _)
MagMulSmallRaw(a, k, c) ==
  IF a = <<>>
  THEN (IF c = 0 THEN <<>> ELSE <<c % Base>> \o MagMulSmallRaw(<<>>, k, c \div Base))
  ELSE LET x == Head(a) * k + c
       IN  <<x % Base>> \o MagMulSmallRaw(Tail(a), k, x \div Base)

MagMulSmall(a, k) == Norm(MagMulSmallRaw(a, k, 0))

MagShift(a) == IF a = <<>> THEN <<>> ELSE <<0>> \o a

RECURSIVE MagMul(_, _)
MagMul(a, b) ==
  IF a = <<>> \/ b = <<>> THEN <<>>
  ELSE MagAdd(MagMulSmall(a, Head(b)), MagShift(MagMul(a, Tail(b))), 0)

\* the largest d in lo..hi with b * d <= r (b * lo <= r is given)
RECURSIVE DivDigit(_, _, _, _)
DivDigit(b, r, lo, hi) ==
  IF lo = hi THEN lo
  ELSE LET mid == (lo + hi + 1) \div 2
       IN  IF MagCmp(MagMulSmall(b, mid), r) <= 0
           THEN DivDigit(b, r, mid, hi)
           ELSE DivDigit(b, r, lo, mid - 1)

\* long division, most significant limb first: [q, r] with a = q * b + r
RECURSIVE MagDivMod(_, _)
MagDivMod(a, b) ==
  IF a = <<>> THEN [q |-> <<>>, r |-> <<>>]
  ELSE LET hi  == MagDivMod(Tail(a), b)
           rem == Norm(<<Head(a)>> \o hi.r)
           d   == DivDigit(b, rem, 0, Base - 1)
       IN  [q |-> <<d>> \o hi.q, r |-> MagSub(rem, MagMulSmall(b, d))]

\* the largest d in lo..hi with (p2 * Base + d) * d <= r
RECURSIVE SqrtDigit(_, _, _, _)
SqrtDigit(p2, r, lo, hi) ==
  IF lo = hi THEN lo
  ELSE LET mid == (lo + hi + 1) \div 2
       IN  IF MagCmp(MagMulSmall(<<mid>> \o p2, mid), r) <= 0
           THEN SqrtDigit(p2, r, mid, hi)
           ELSE SqrtDigit(p2, r, lo, mid - 1)

\* integer square root, two limbs at a time: [p, r] with a = p * p + r
RECURSIVE MagSqrtRem(_)
MagSqrtRem(a) ==
  IF a = <<>> THEN [p |-> <<>>, r |-> <<>>]
  ELSE LET hi  == MagSqrtRem(Rest(Tail(a)))
           rem == Norm(<<Head(a), Limb(Tail(a))>> \o hi.r)
           p2  == MagMulSmall(hi.p, 2)
           d   == SqrtDigit(p2, rem, 0, Base - 1)
       IN  [p |-> <<d>> \o hi.p,
            r |-> MagSub(rem, MagMulSmall(<<d>> \o p2, d))]

RECURSIVE IntMag(_)
IntMag(n) == IF n = 0 THEN <<>> ELSE <<n % Base>> \o IntMag(n \div Base)

RECURSIVE MagTimesTen(_, _)
MagTimesTen(a, e) == IF e = 0 THEN a ELSE MagTimesTen(MagMulSmall(a, 10), e - 1)

(***************************************************************************)
(* Doubles: [fin, neg, mag], the value (-1)^neg * mag / 10^16.             *)
(***************************************************************************)
NonFinite == [fin |-> FALSE, neg |-> FALSE, mag |-> <<>>]

Mk(neg, mag) ==
  LET m == Norm(mag) IN [fin |-> TRUE, neg |-> (neg /\ m # <<>>), mag |-> m]

\* the double m * 10^-e, for an integer m and 0 <= e <= 16
Dec(m, e) == Mk(m < 0, MagTimesTen(IntMag(IF m < 0 THEN -m ELSE m), 16 - e))

FromInt(n) == Dec(n, 0)

Zero == FromInt(0)

FNeg(a) == IF ~a.fin THEN NonFinite ELSE Mk(~a.neg, a.mag)

FAdd(a, b) ==
  IF ~a.fin \/ ~b.fin THEN NonFinite
  ELSE IF a.neg = b.neg THEN Mk(a.neg, MagAdd(a.mag, b.mag, 0))
  ELSE IF MagCmp(a.mag, b.mag) >= 0 THEN Mk(a.neg, MagSub(a.mag, b.mag))
  ELSE Mk(b.neg, MagSub(b.mag, a.mag))

FSub(a, b) == FAdd(a, FNeg(b))

FMul(a, b) ==
  IF ~a.fin \/ ~b.fin THEN NonFinite
  ELSE LET p == MagMul(a.mag, b.mag)
       IN  Mk(a.neg # b.neg, SubSeq(p, 5, Len(p)))

\* a / b; a division by zero gives inf or NaN
FDiv(a, b) ==
  IF ~a.fin \/ ~b.fin \/ b.mag = <<>> THEN NonFinite
  ELSE Mk(a.neg # b.neg, MagDivMod(FracZeros \o a.mag, b.mag).q)

\* sqrt(a); NaN for a negative argument
FSqrt(a) ==
  IF ~a.fin \/ a.neg THEN NonFinite
  ELSE Mk(FALSE, MagSqrtRem(FracZeros \o a.mag).p)

\* pow(a, i) for the small positive integer exponents the code uses
RECURSIVE FPow(_, _)
FPow(a, i) == IF i = 1 THEN a ELSE FMul(FPow(a, i - 1), a)

\* a < b as C compares doubles: false when either side is NaN
FLess(a, b) ==
  /\ a.fin /\ b.fin
  /\ IF a.neg # b.neg THEN a.neg
     ELSE IF a.neg THEN MagCmp(a.mag, b.mag) > 0
     ELSE MagCmp(a.mag, b.mag) < 0

FLeq(a, b) == a.fin /\ b.fin /\ ~FLess(b, a)

FAbs(a) == IF ~a.fin THEN NonFinite ELSE Mk(FALSE, a.mag)


(***************************************************************************)
(* rtd_calculator.h (not part of the sources at hand): the type selectors  *)
(* and the GOST 6651-2009 constants A, B, C of each family.  The values    *)
(* reproduce the resistance ranges rtd_calculator.c documents in lines     *)
(* 28-38 (Pt100 18.52..390.48, 50P 8.62..197.58, 50M 10.26..92.80,         *)
(* 100N 69.45..223.21 Ohm).                                                *)
(***************************************************************************)
PT_385 == 0

PT_391 == 1

M_428 == 2

N_617 == 3

PT_A_385 == Dec(39083, 7)

PT_B_385 == Dec(-5775, 10)

PT_C_385 == Dec(-4183, 15)

PT_A_391 == Dec(39690, 7)

PT_B_391 == Dec(-5841, 10)

PT_C_391 == Dec(-4330, 15)

M_A_428 == Dec(428, 5)

M_B_428 == Dec(-62032, 11)

M_C_428 == Dec(85154, 14)

N_A_617 == Dec(54963, 7)

N_B_617 == Dec(67556, 10)

N_C_617 == Dec(92004, 13)

(***************************************************************************)
(* rtd_calculator.c: the coefficient tables of the inverse power series.   *)
(***************************************************************************)
PT_D_385 == <<Dec(255819, 3), Dec(914550, 5), Dec(-292363, 5), Dec(179090, 5)>>

PT_D_391 == <<Dec(251903, 3), Dec(880035, 5), Dec(-291506, 5), Dec(167611, 5)>>

M_D_428 == <<Dec(23387, 2), Dec(79370, 4), Dec(-20062, 4), Dec(-3953, 4)>>

N_D_617 == <<Dec(144096, 3), Dec(-25502, 3), Dec(44876, 4)>>

One == FromInt(1)

\* the loop  for (i = 1; i <= n; i++) Temperature += D[i - 1] * pow(x, i)
\* started from Temperature = 0
RECURSIVE PowerSeries(_, _, _)
PowerSeries(D, x, n) ==
  IF n = 0 THEN Zero
  ELSE FAdd(PowerSeries(D, x, n - 1), FMul(D[n], FPow(x, n)))

\* (sqrt(pow(A, 2) - 4 * B * (1 - Resistance / R0)) - A) / (2 * B)
QuadraticRoot(A, B, Resistance, R0) ==
  FDiv(FSub(FSqrt(FSub(FPow(A, 2),
                       FMul(FMul(FromInt(4), B),
                            FSub(One, FDiv(Resistance, R0))))),
            A),
       FMul(FromInt(2), B))

\* Mutant: Get_Temperature_PT summing only three terms of the power series
Get_Temperature_PT_ThreeTerms(Resistance, R0, Type) ==
  IF FLess(Resistance, R0)
  THEN IF Type = PT_385
       THEN PowerSeries(PT_D_385, FSub(FDiv(Resistance, R0), One), 3)
       ELSE IF Type = PT_391
       THEN PowerSeries(PT_D_391, FSub(FDiv(Resistance, R0), One), 3)
       ELSE Zero
  ELSE IF Type = PT_385
       THEN QuadraticRoot(PT_A_385, PT_B_385, Resistance, R0)
       ELSE IF Type = PT_391
       THEN QuadraticRoot(PT_A_391, PT_B_391, Resistance, R0)
       ELSE Zero

Get_Temperature_PT(Resistance, R0, Type) ==
  IF FLess(Resistance, R0)
  THEN IF Type = PT_385
       THEN PowerSeries(PT_D_385, FSub(FDiv(Resistance, R0), One), 4)
       ELSE IF Type = PT_391
       THEN PowerSeries(PT_D_391, FSub(FDiv(Resistance, R0), One), 4)
       ELSE Zero
  ELSE IF Type = PT_385
       THEN QuadraticRoot(PT_A_385, PT_B_385, Resistance, R0)
       ELSE IF Type = PT_391
       THEN QuadraticRoot(PT_A_391, PT_B_391, Resistance, R0)
       ELSE Zero

\* R0 * (1 + A * T + B * pow(T, 2) + C * (T - 100) * pow(T, 3))
PT_Cubic(A, B, C, Temperature, R0) ==
  FMul(R0,
       FAdd(FAdd(FAdd(One, FMul(A, Temperature)),
                 FMul(B, FPow(Temperature, 2))),
            FMul(FMul(C, FSub(Temperature, FromInt(100))),
                 FPow(Temperature, 3))))

\* R0 * (1 + A * T + B * pow(T, 2))
Quadratic(A, B, Temperature, R0) ==
  FMul(R0, FAdd(FAdd(One, FMul(A, Temperature)),
                FMul(B, FPow(Temperature, 2))))

\* Mutant: Get_Resistance_PT applying the below-zero cubic form at every
\* temperature
Get_Resistance_PT_AlwaysCubic(Temperature, R0, Type) ==
  IF Type = PT_385
  THEN PT_Cubic(PT_A_385, PT_B_385, PT_C_385, Temperature, R0)
  ELSE IF Type = PT_391
  THEN PT_Cubic(PT_A_391, PT_B_391, PT_C_391, Temperature, R0)
  ELSE Zero

Get_Resistance_PT(Temperature, R0, Type) ==
  IF FLess(Temperature, Zero)
  THEN IF Type = PT_385
       THEN PT_Cubic(PT_A_385, PT_B_385, PT_C_385, Temperature, R0)
       ELSE IF Type = PT_391
       THEN PT_Cubic(PT_A_391, PT_B_391, PT_C_391, Temperature, R0)
       ELSE Zero
  ELSE IF Type = PT_385
       THEN Quadratic(PT_A_385, PT_B_385, Temperature, R0)
       ELSE IF Type = PT_391
       THEN Quadratic(PT_A_391, PT_B_391, Temperature, R0)
       ELSE Zero

\* Mutant: Get_Temperature_M without its Type test on the linear branch
Get_Temperature_M_NoTypeTest(Resistance, R0, Type) ==
  IF FLess(Resistance, R0)
  THEN IF Type = M_428
       THEN PowerSeries(M_D_428, FSub(FDiv(Resistance, R0), One), 4)
       ELSE Zero
  ELSE FDiv(FSub(FDiv(Resistance, R0), One), M_A_428)

Get_Temperature_M(Resistance, R0, Type) ==
  IF FLess(Resistance, R0)
  THEN IF Type = M_428
       THEN PowerSeries(M_D_428, FSub(FDiv(Resistance, R0), One), 4)
       ELSE Zero
  ELSE IF Type = M_428
       THEN FDiv(FSub(FDiv(Resistance, R0), One), M_A_428)
       ELSE Zero

\* Mutant: Get_Resistance_M returning the ratio R/R0, the factor R0 forgotten
Get_Resistance_M_NoR0(Temperature, R0, Type) ==
  IF FLess(Temperature, Zero)
  THEN IF Type = M_428
       THEN FAdd(FAdd(FAdd(One, FMul(M_A_428, Temperature)),
                      FMul(FMul(M_B_428, Temperature),
                           FAdd(Temperature, Dec(67, 1)))),
                 FMul(M_C_428, FPow(Temperature, 3)))
       ELSE Zero
  ELSE IF Type = M_428
       THEN FAdd(One, FMul(M_A_428, Temperature))
       ELSE Zero

Get_Resistance_M(Temperature, R0, Type) ==
  IF FLess(Temperature, Zero)
  THEN IF Type = M_428
       THEN FMul(R0,
                 FAdd(FAdd(FAdd(One, FMul(M_A_428, Temperature)),
                           FMul(FMul(M_B_428, Temperature),
                                FAdd(Temperature, Dec(67, 1)))),
                      FMul(M_C_428, FPow(Temperature, 3))))
       ELSE Zero
  ELSE IF Type = M_428
       THEN FMul(R0, FAdd(One, FMul(M_A_428, Temperature)))
       ELSE Zero

\* the knee resistance Get_Temperature_N selects its branch by
Temp_start(R0) ==
  IF R0 = FromInt(100) THEN Dec(16172, 2)
  ELSE IF R0 = FromInt(500) THEN Dec(80859, 2)
  ELSE IF R0 = FromInt(1000) THEN Dec(16172, 1)
  ELSE Zero

\* the branch of Get_Temperature_N below the knee
N_Quadratic(Resistance, R0) == QuadraticRoot(N_A_617, N_B_617, Resistance, R0)

\* the branch of Get_Temperature_N at and above the knee
N_Series(Resistance, R0) ==
  FAdd(PowerSeries(N_D_617, FSub(FDiv(Resistance, R0), Dec(16172, 4)), 3),
       FromInt(100))

Get_Temperature_N(Resistance, R0, Type) ==
  IF Type = N_617
  THEN IF FLess(Resistance, Temp_start(R0))
       THEN N_Quadratic(Resistance, R0)
       ELSE N_Series(Resistance, R0)
  ELSE Zero

\* Mutant: Get_Resistance_N with the correction term C * T * pow(T, 2), the
\* offset -100 forgotten
Get_Resistance_N_NoOffset(Temperature, R0, Type) ==
  IF Type = N_617
  THEN IF FLess(Temperature, FromInt(100))
       THEN Quadratic(N_A_617, N_B_617, Temperature, R0)
       ELSE FMul(R0,
                 FAdd(FAdd(FAdd(One, FMul(N_A_617, Temperature)),
                           FMul(N_B_617, FPow(Temperature, 2))),
                      FMul(FMul(N_C_617, Temperature),
                           FPow(Temperature, 2))))
  ELSE Zero

Get_Resistance_N(Temperature, R0, Type) ==
  IF Type = N_617
  THEN IF FLess(Temperature, FromInt(100))
       THEN Quadratic(N_A_617, N_B_617, Temperature, R0)
       ELSE FMul(R0,
                 FAdd(FAdd(FAdd(One, FMul(N_A_617, Temperature)),
                           FMul(N_B_617, FPow(Temperature, 2))),
                      FMul(FMul(N_C_617, FSub(Temperature, FromInt(100))),
                           FPow(Temperature, 2))))
  ELSE Zero

(***************************************************************************)
(* State.  The calculator is stateless: fn, Type, R0, arg, out record one  *)
(* call (arg2/out2 a second sample of the same function, back the result   *)
(* of converting out back).  The driver's state is its global fault flag,  *)
(* the chip's configuration register (the last byte written to it), the    *)
(* chip-select line, the bus traffic of the last call, the seven bytes the *)
(* last poll received, the values MAX31865_Get_Resistance (data) and       *)
(* MAX31865_Configuration_info (info) last returned, the last call and the *)
(* num_wires the caller last gave MAX31865_Init.                           *)
(***************************************************************************)
VARIABLES fn, Type, R0, arg, out, arg2, out2, back,
          MAX31865_Sensor_Error, Configuration_register, NSS, spi_log,
          MAX31865_rx_buffer, data, info, call, num_wires

calcVars == <<fn, Type, R0, arg, out, arg2, out2, back>>

driverVars == <<MAX31865_Sensor_Error, Configuration_register, NSS, spi_log,
                MAX31865_rx_buffer, data, info, call, num_wires>>

vars == <<fn, Type, R0, arg, out, arg2, out2, back,
          MAX31865_Sensor_Error, Configuration_register, NSS, spi_log,
          MAX31865_rx_buffer, data, info, call, num_wires>>

\* the driver's globals as the C initialisers leave them (MAX31865.c:39-43)
DriverReset ==
  /\ MAX31865_Sensor_Error = 0
  /\ Configuration_register = 0
  /\ NSS = "OFF"
  /\ spi_log = <<>>
  /\ MAX31865_rx_buffer = <<0, 0, 0, 0, 0, 0, 0>>
  /\ data = 0
  /\ info = 0
  /\ call = "none"
  /\ num_wires = 0

\* no conversion called yet
CalcReset ==
  /\ fn = "none"
  /\ out = Zero
  /\ out2 = Zero
  /\ back = Zero

(***************************************************************************)
(* SpecConv: each of the six conversions applied once to an input drawn    *)
(* from the sample sets below.                                             *)
(***************************************************************************)
\* selectors 0..MaxType: the four families and the unrecognised codes above
MaxType == 5

\* nominal resistances, the unsupported 0 included
ConvR0 == {FromInt(n) : n \in {0, 50, 100, 500, 1000}}

\* inputs (Ohm or degrees C, in hundredths): both sides of every branch
\* threshold, the thresholds themselves and the nickel knees
ConvArgs ==
  {Dec(m, 2) : m \in {-20000, -6000, -100, 0, 100, 5000, 9900, 10000, 10100,
                      13851, 16171, 16172, 18000, 50000, 80859, 80860,
                      100000, 161720, 200000}}

InitConv ==
  /\ Type \in 0..MaxType
  /\ R0 \in ConvR0
  /\ arg \in ConvArgs
  /\ arg2 = Zero
  /\ CalcReset
  /\ DriverReset

Returned(f, v) ==
  /\ fn = "none"
  /\ fn' = f
  /\ out' = v
  /\ UNCHANGED <<Type, R0, arg, arg2, out2, back>>
  /\ UNCHANGED driverVars

Call_Get_Temperature_PT ==
  Returned("Get_Temperature_PT", Get_Temperature_PT(arg, R0, Type))

Call_Get_Resistance_PT ==
  Returned("Get_Resistance_PT", Get_Resistance_PT(arg, R0, Type))

Call_Get_Temperature_M ==
  Returned("Get_Temperature_M", Get_Temperature_M(arg, R0, Type))

Call_Get_Resistance_M ==
  Returned("Get_Resistance_M", Get_Resistance_M(arg, R0, Type))

Call_Get_Temperature_N ==
  Returned("Get_Temperature_N", Get_Temperature_N(arg, R0, Type))

Call_Get_Resistance_N ==
  Returned("Get_Resistance_N", Get_Resistance_N(arg, R0, Type))

NextConv ==
  \/ Call_Get_Temperature_PT
  \/ Call_Get_Resistance_PT
  \/ Call_Get_Temperature_M
  \/ Call_Get_Resistance_M
  \/ Call_Get_Temperature_N
  \/ Call_Get_Resistance_N

SpecConv == InitConv /\ [][NextConv]_vars

(***************************************************************************)
(* Claims checked under SpecConv.                                          *)
(***************************************************************************)
PT_Functions == {"Get_Temperature_PT", "Get_Resistance_PT"}

M_Functions == {"Get_Temperature_M", "Get_Resistance_M"}

N_Functions == {"Get_Temperature_N", "Get_Resistance_N"}

TemperatureFunctions ==
  {"Get_Temperature_PT", "Get_Temperature_M", "Get_Temperature_N"}

\* the selector is one the called function recognises
Recognised ==
  \/ fn \in PT_Functions /\ Type \in {PT_385, PT_391}
  \/ fn \in M_Functions /\ Type = M_428
  \/ fn \in N_Functions /\ Type = N_617

\* C1: each of the six conversions, called with a Type it does not
\* recognise, returns 0 (a finite value) whatever the input and R0 are,
\* on both sides of its branch threshold, R0 = 0 included.
C1_UnrecognisedTypeYieldsZero ==
  (fn # "none" /\ ~Recognised) => out = Zero

\* C1 witness: Get_Temperature_N has returned 0 for an unrecognised selector
\* with R0 = 0, where a recognised one would have divided by zero.
C1_Witness ==
  /\ fn = "Get_Temperature_N"
  /\ Type = PT_385
  /\ R0 = Zero
  /\ arg = FromInt(100)
  /\ out = Zero

\* C2: for every family and every R0, the temperature-to-resistance
\* function called with Temperature = 0 returns exactly R0.
C2_ZeroCelsiusIsR0 ==
  (fn \in {"Get_Resistance_PT", "Get_Resistance_M", "Get_Resistance_N"}
     /\ Recognised /\ arg = Zero)
  => out = R0

\* C2 witness: Get_Resistance_M(0, 50, M_428) has returned 50.
C2_Witness ==
  /\ fn = "Get_Resistance_M"
  /\ Type = M_428
  /\ arg = Zero
  /\ R0 = FromInt(50)
  /\ out = FromInt(50)

\* the call f(a, r, N_617) has returned
NickelCall(f, a, r) == fn = f /\ Type = N_617 /\ arg = a /\ R0 = r

\* C3 as stated: Get_Resistance_N(100, 100, N_617) is exactly the knee
\* 161.72 that Get_Temperature_N uses for R0 = 100.
C3_Original_KneeExact ==
  NickelCall("Get_Resistance_N", FromInt(100), FromInt(100))
  => out = Temp_start(FromInt(100))

\* C3 amended: Get_Resistance_N(100, 100, N_617) is 161.7186, which lies
\* below the knee 161.72 by 0.0014 Ohm; at the knee resistance 161.72
\* Get_Temperature_N takes the power series and returns 100, and the
\* quadratic branch evaluated there agrees with it within 0.0025 degrees.
C3_KneeWithinTolerance ==
  /\ NickelCall("Get_Resistance_N", FromInt(100), FromInt(100))
     => /\ out = Dec(1617186, 4)
        /\ FSub(Temp_start(R0), out) = Dec(14, 4)
  /\ NickelCall("Get_Temperature_N", Dec(16172, 2), FromInt(100))
     => /\ out = N_Series(arg, R0)
        /\ out = FromInt(100)
        /\ FLeq(FAbs(FSub(N_Quadratic(arg, R0), out)), Dec(25, 4))
        /\ FLess(Dec(20, 4), FAbs(FSub(N_Quadratic(arg, R0), out)))

\* C3 witness: Get_Resistance_N(100, 100, N_617) has returned 161.7186.
C3_Witness ==
  /\ NickelCall("Get_Resistance_N", FromInt(100), FromInt(100))
  /\ out = Dec(1617186, 4)

NickelR0 == {FromInt(100), FromInt(500), FromInt(1000)}

\* C4 as stated: for nickel and R0 in {100, 500, 1000}, Get_Temperature_N
\* returns the quadratic closed form exactly when Resistance is below the
\* knee Temp_start and the power series otherwise, and every resistance at
\* or above the knee yields at least 100 degrees.
C4_KneeYieldsAtLeast100 ==
  (fn = "Get_Temperature_N" /\ Type = N_617 /\ R0 \in NickelR0)
  => IF FLess(arg, Temp_start(R0))
     THEN out = N_Quadratic(arg, R0)
     ELSE out = N_Series(arg, R0) /\ FLeq(FromInt(100), out)

\* C7 as stated: with R0 = 0 no resistance-to-temperature conversion
\* returns a non-finite result.
C7_ZeroR0Guarded ==
  (fn \in TemperatureFunctions /\ R0 = Zero) => out.fin

(***************************************************************************)
(* The supported temperature range of each family (rtd_calculator.c,       *)
(* lines 24-27), the temperature at which its formula changes, and the     *)
(* nominal resistances of the supported sensors (lines 12-22).             *)
(***************************************************************************)
RangeLow(t) == IF t \in {PT_385, PT_391} THEN -200 ELSE IF t = M_428 THEN -180 ELSE -60

RangeHigh(t) == IF t \in {PT_385, PT_391} THEN 850 ELSE IF t = M_428 THEN 200 ELSE 180

BranchPoint(t) == IF t = N_617 THEN 100 ELSE 0

SupportedR0(t) ==
  IF t = PT_385 THEN {FromInt(100), FromInt(500), FromInt(1000)}
  ELSE IF t \in {PT_391, M_428} THEN {FromInt(50), FromInt(100)}
  ELSE {FromInt(100), FromInt(500), FromInt(1000)}

\* whole degrees of the range: n + 1 evenly spread ones from end to end, and
\* the branch point with its two neighbours
Grid(t, n) ==
  {RangeLow(t) + (k * (RangeHigh(t) - RangeLow(t))) \div n : k \in 0..n}
    \cup (BranchPoint(t) - 1)..(BranchPoint(t) + 1)

\* the resistance at which the inverse function of family t changes branch
KneeResistance(t, r) == IF t = N_617 THEN Temp_start(r) ELSE r

(***************************************************************************)
(* SpecMono: a temperature-to-resistance function applied to two           *)
(* temperatures arg < arg2 of its family's range.                          *)
(***************************************************************************)
\* temperatures sampled per family are MonoSamples + 1, in pairs
MonoSamples == 20

MonoR0 == {Dec(5, 1), FromInt(100), FromInt(1000)}

InitMono ==
  /\ Type \in {PT_385, PT_391, M_428, N_617}
  /\ R0 \in MonoR0
  /\ \E T1, T2 \in Grid(Type, MonoSamples) :
        /\ T1 < T2
        /\ arg = FromInt(T1)
        /\ arg2 = FromInt(T2)
  /\ CalcReset
  /\ DriverReset

Sampled(f, v1, v2) ==
  /\ fn = "none"
  /\ fn' = f
  /\ out' = v1
  /\ out2' = v2
  /\ UNCHANGED <<Type, R0, arg, arg2, back>>
  /\ UNCHANGED driverVars

Sample_Get_Resistance_PT ==
  Sampled("Get_Resistance_PT", Get_Resistance_PT(arg, R0, Type),
          Get_Resistance_PT(arg2, R0, Type))

Sample_Get_Resistance_M ==
  Sampled("Get_Resistance_M", Get_Resistance_M(arg, R0, Type),
          Get_Resistance_M(arg2, R0, Type))

Sample_Get_Resistance_N ==
  Sampled("Get_Resistance_N", Get_Resistance_N(arg, R0, Type),
          Get_Resistance_N(arg2, R0, Type))

NextMono ==
  \/ Sample_Get_Resistance_PT
  \/ Sample_Get_Resistance_M
  \/ Sample_Get_Resistance_N

SpecMono == InitMono /\ [][NextMono]_vars

\* C5: for each family and positive R0, the temperature-to-resistance
\* function is strictly increasing on the family's range: T1 < T2 gives
\* Get_Resistance(T1) < Get_Resistance(T2), also across the branch point.
C5_StrictlyIncreasing ==
  (fn # "none" /\ Recognised /\ FLess(arg, arg2)) => FLess(out, out2)

\* C5 witness: nickel sampled on both sides of its branch point 100.
C5_Witness ==
  /\ fn = "Get_Resistance_N"
  /\ Type = N_617
  /\ arg = FromInt(99)
  /\ arg2 = FromInt(101)
  /\ FLess(out, out2)

(***************************************************************************)
(* SpecRound: a temperature of the family's range converted to a           *)
(* resistance and that resistance converted back.                          *)
(***************************************************************************)
\* temperatures sampled per family are RoundSamples + 1
RoundSamples == 100

InitRound ==
  /\ Type \in {PT_385, PT_391, M_428, N_617}
  /\ R0 \in SupportedR0(Type)
  /\ \E T \in Grid(Type, RoundSamples) : arg = FromInt(T)
  /\ arg2 = Zero
  /\ CalcReset
  /\ DriverReset

Forward(f, v) ==
  /\ fn = "none"
  /\ fn' = f
  /\ out' = v
  /\ UNCHANGED <<Type, R0, arg, arg2, out2, back>>
  /\ UNCHANGED driverVars

Backward(f, g, v) ==
  /\ fn = f
  /\ fn' = g
  /\ back' = v
  /\ UNCHANGED <<Type, R0, arg, arg2, out, out2>>
  /\ UNCHANGED driverVars

Forward_PT == Forward("Get_Resistance_PT", Get_Resistance_PT(arg, R0, Type))

Backward_PT ==
  Backward("Get_Resistance_PT", "Get_Temperature_PT",
           Get_Temperature_PT(out, R0, Type))

Forward_M == Forward("Get_Resistance_M", Get_Resistance_M(arg, R0, Type))

Backward_M ==
  Backward("Get_Resistance_M", "Get_Temperature_M",
           Get_Temperature_M(out, R0, Type))

Forward_N == Forward("Get_Resistance_N", Get_Resistance_N(arg, R0, Type))

Backward_N ==
  Backward("Get_Resistance_N", "Get_Temperature_N",
           Get_Temperature_N(out, R0, Type))

NextRound ==
  \/ Forward_PT
  \/ Backward_PT
  \/ Forward_M
  \/ Backward_M
  \/ Forward_N
  \/ Backward_N

SpecRound == InitRound /\ [][NextRound]_vars

\* the round trip of a recognised family is complete
RoundTripDone == fn \in TemperatureFunctions /\ Recognised

\* the temperature is at least one degree away from the branch point
AwayFromBranch ==
  \/ FLeq(arg, FromInt(BranchPoint(Type) - 1))
  \/ FLeq(FromInt(BranchPoint(Type) + 1), arg)

\* the resistance computed for arg makes the inverse function take the
\* branch of arg's own regime
SameRegime ==
  FLess(arg, FromInt(BranchPoint(Type))) <=> FLess(out, KneeResistance(Type, R0))

RoundTripError == FAbs(FSub(back, arg))

\* C6 as stated: away from the branch point the round trip returns T within
\* 1e-3 degrees, through the inverse branch of T's own regime.
C6_Original_RoundTrip1e3 ==
  (RoundTripDone /\ AwayFromBranch)
  => SameRegime /\ FLeq(RoundTripError, Dec(1, 3))

\* C6 amended: away from the branch point the round trip returns T within
\* 2.5e-3 degrees, through the inverse branch of T's own regime.
C6_RoundTrip ==
  (RoundTripDone /\ AwayFromBranch)
  => SameRegime /\ FLeq(RoundTripError, Dec(25, 4))

\* C6 witness: a platinum round trip below zero whose error is above 1e-3.
C6_Witness ==
  /\ fn = "Get_Temperature_PT"
  /\ Type = PT_385
  /\ FLess(arg, FromInt(-100))
  /\ AwayFromBranch
  /\ SameRegime
  /\ FLess(Dec(1, 3), RoundTripError)
  /\ FLeq(RoundTripError, Dec(25, 4))

(***************************************************************************)
(* MAX31865.c: the driver.  A call is one action; the bus events it makes  *)
(* are recorded in order in spi_log.                                       *)
(***************************************************************************)
Event(op, bytes) == [op |-> op, bytes |-> bytes]

NSS_ON == Event("NSS_ON", <<>>)

NSS_OFF == Event("NSS_OFF", <<>>)

\* the configuration byte MAX31865_Init sends for num_wires = n
ConfigurationByte(n) ==
  IF n = 2 \/ n = 4 THEN 195       \* 0xC3
  ELSE IF n = 3 THEN 211           \* 0xD3
  ELSE 0                           \* the initialiser { 0x80, 0x00 }

\* MAX31865_Init(SPI, n): the fault flag, the register and the bus events
\* it leaves.  128 = 0x80 is the address of the configuration register.
MAX31865_Init(n) ==
  [Sensor_Error |-> 0,
   config       |-> ConfigurationByte(n),
   log          |-> <<NSS_ON, Event("TX", <<128, ConfigurationByte(n)>>), NSS_OFF>>]

\* Mutant: the register pair taken without the shift that drops the fault bit
RTD_Resistance_Registers_NoShift(rx) == (rx[1] * 256 + rx[2]) % 65536

\* ((rx[0] << 8) | rx[1]) >> 1, stored in a uint16_t
RTD_Resistance_Registers(rx) == ((rx[1] * 256 + rx[2]) \div 2) % 65536

\* MAX31865_R_REF = 428.5 Ohm, in tenths of an Ohm
MAX31865_R_REF_Tenths == 4285

\* the returned double RTD * R_REF / 32768 is held exactly, as the integer
\* number of 1/(10 * 32768) Ohm
DataUnitsPerOhm == 10 * 32768

\* the poll transaction: address 0x01 sent, seven bytes received
PollLog(rx) == <<NSS_ON, Event("TX", <<1>>), Event("RX", rx), NSS_OFF>>

\* Mutant: MAX31865_Get_Resistance raising the fault flag and leaving it to
\* the operator, without the automatic reset
MAX31865_Get_Resistance_NoAutoReset(rx, err, cfg) ==
  [Sensor_Error |-> IF rx[7] > 0 THEN 1 ELSE err,
   config       |-> cfg,
   log          |-> PollLog(rx),
   data         |-> RTD_Resistance_Registers(rx) * MAX31865_R_REF_Tenths]

\* Mutant: the automatic reset re-initialising for a 4-wire sensor
MAX31865_Get_Resistance_Reinit4(rx, err, cfg) ==
  IF rx[7] > 0
  THEN [Sensor_Error |-> 0,
        config       |-> MAX31865_Init(4).config,
        log          |-> PollLog(rx) \o MAX31865_Init(4).log,
        data         |-> RTD_Resistance_Registers(rx) * MAX31865_R_REF_Tenths]
  ELSE [Sensor_Error |-> err,
        config       |-> cfg,
        log          |-> PollLog(rx),
        data         |-> RTD_Resistance_Registers(rx) * MAX31865_R_REF_Tenths]

\* MAX31865_Get_Resistance(SPI) receiving rx, entered with the fault flag
\* err and the configuration register cfg
MAX31865_Get_Resistance(rx, err, cfg) ==
  LET RTD   == RTD_Resistance_Registers(rx)
      Fault_Status == rx[7]
      value == RTD * MAX31865_R_REF_Tenths
  IN  IF Fault_Status > 0
      THEN LET raised == 1
               init   == MAX31865_Init(3)
               reset  == 0
           IN  [Sensor_Error |-> reset,
                config       |-> init.config,
                log          |-> PollLog(rx) \o init.log,
                data         |-> value]
      ELSE [Sensor_Error |-> err,
            config       |-> cfg,
            log          |-> PollLog(rx),
            data         |-> value]

\* the chip-select line after the events of log, from the state nss
RECURSIVE LineAfter(_, _)
LineAfter(nss, log) ==
  IF log = <<>> THEN nss
  ELSE LineAfter(IF Head(log).op = "NSS_ON" THEN "ON"
                 ELSE IF Head(log).op = "NSS_OFF" THEN "OFF"
                 ELSE nss,
                 Tail(log))

\* the byte the chip answers a read of its configuration register with: the
\* fault-status-clear bit D1 has cleared itself (MAX31865.c, lines 96-97)
ConfigurationReadBack(cfg) == cfg - (IF (cfg \div 2) % 2 = 1 THEN 2 ELSE 0)

\* thresholds as the chip powers up and the driver leaves them
ReceiveBuffer(b0, b1, fault) == <<b0, b1, 255, 255, 0, 0, fault>>

Do_MAX31865_Init(wires) ==
  LET r == MAX31865_Init(wires)
  IN  /\ MAX31865_Sensor_Error' = r.Sensor_Error
      /\ Configuration_register' = r.config
      /\ spi_log' = r.log
      /\ NSS' = LineAfter(NSS, r.log)
      /\ call' = "MAX31865_Init"
      /\ num_wires' = wires
      /\ UNCHANGED <<MAX31865_rx_buffer, data, info>>
      /\ UNCHANGED calcVars

Do_MAX31865_Configuration_info ==
  LET log == <<NSS_ON, Event("TX", <<0>>),
               Event("RX", <<ConfigurationReadBack(Configuration_register)>>),
               NSS_OFF>>
  IN  /\ info' = ConfigurationReadBack(Configuration_register)
      /\ spi_log' = log
      /\ NSS' = LineAfter(NSS, log)
      /\ call' = "MAX31865_Configuration_info"
      /\ UNCHANGED <<MAX31865_Sensor_Error, Configuration_register,
                     MAX31865_rx_buffer, data, num_wires>>
      /\ UNCHANGED calcVars

Do_MAX31865_Get_Resistance(rx) ==
  LET r == MAX31865_Get_Resistance(rx, MAX31865_Sensor_Error,
                                   Configuration_register)
  IN  /\ MAX31865_rx_buffer' = rx
      /\ MAX31865_Sensor_Error' = r.Sensor_Error
      /\ Configuration_register' = r.config
      /\ spi_log' = r.log
      /\ NSS' = LineAfter(NSS, r.log)
      /\ data' = r.data
      /\ call' = "MAX31865_Get_Resistance"
      /\ UNCHANGED <<info, num_wires>>
      /\ UNCHANGED calcVars

(***************************************************************************)
(* SpecDriver: any sequence of driver calls, the chip answering each poll  *)
(* with register and fault bytes of the sample sets.                       *)
(***************************************************************************)
\* num_wires ranges over 0..MaxWires: 2, 3, 4 and values Init does not know
MaxWires == 4

SampleBytes == {0, 1, 255}

FaultBytes == {0, 4, 255}

InitDriver ==
  /\ DriverReset
  /\ CalcReset
  /\ Type = 0
  /\ R0 = Zero
  /\ arg = Zero
  /\ arg2 = Zero

Driver_Init == \E wires \in 0..MaxWires : Do_MAX31865_Init(wires)

Driver_Configuration_info == Do_MAX31865_Configuration_info

Driver_Get_Resistance ==
  \E b0, b1 \in SampleBytes, fault \in FaultBytes :
     Do_MAX31865_Get_Resistance(ReceiveBuffer(b0, b1, fault))

NextDriver ==
  \/ Driver_Init
  \/ Driver_Configuration_info
  \/ Driver_Get_Resistance

SpecDriver == InitDriver /\ [][NextDriver]_vars

(***************************************************************************)
(* SpecAdc: MAX31865_Init, then one poll answered with any two register    *)
(* bytes.                                                                  *)
(***************************************************************************)
MaxByte == 255

Adc_Init ==
  /\ call = "none"
  /\ \E wires \in {2, 3, 4} : Do_MAX31865_Init(wires)

Adc_Get_Resistance ==
  /\ call = "MAX31865_Init"
  /\ \E b0, b1 \in 0..MaxByte, fault \in {0, 4} :
        Do_MAX31865_Get_Resistance(ReceiveBuffer(b0, b1, fault))

NextAdc ==
  \/ Adc_Init
  \/ Adc_Get_Resistance

SpecAdc == InitDriver /\ [][NextAdc]_vars

(***************************************************************************)
(* Claims about the driver.                                                *)
(***************************************************************************)
\* the number of writes to the configuration register in log
RECURSIVE ConfigurationWrites(_)
ConfigurationWrites(log) ==
  IF log = <<>> THEN 0
  ELSE (IF Head(log).op = "TX" /\ Head(log).bytes[1] = 128 THEN 1 ELSE 0)
       + ConfigurationWrites(Tail(log))

\* chip-select is asserted only when released, released only when asserted,
\* bytes move only while it is asserted, and it ends released
RECURSIVE WellFramed(_, _)
WellFramed(nss, log) ==
  IF log = <<>> THEN nss = "OFF"
  ELSE IF Head(log).op = "NSS_ON" THEN nss = "OFF" /\ WellFramed("ON", Tail(log))
  ELSE IF Head(log).op = "NSS_OFF" THEN nss = "ON" /\ WellFramed("OFF", Tail(log))
  ELSE nss = "ON" /\ WellFramed(nss, Tail(log))

Polled == call = "MAX31865_Get_Resistance"

FaultSeen == Polled /\ MAX31865_rx_buffer[7] > 0

\* C8: a poll that receives a nonzero fault-status byte re-initialises the
\* chip with exactly one write of the configuration register, a poll that
\* receives zero makes none, and MAX31865_Sensor_Error is 0 whenever a
\* driver call has returned.
C8_FaultFlagClearedOnReturn ==
  /\ MAX31865_Sensor_Error = 0
  /\ Polled => ConfigurationWrites(spi_log) = (IF FaultSeen THEN 1 ELSE 0)

\* C8 witness: a poll has read a nonzero fault status, written the
\* configuration register once and returned with the flag cleared.
C8_Witness ==
  /\ FaultSeen
  /\ ConfigurationWrites(spi_log) = 1
  /\ MAX31865_Sensor_Error = 0

\* C9: for all register bytes b0, b1 the poll returns adc * R_ref / 32768
\* with the 15-bit adc = b0 * 128 + b1 div 2: a value in [0, R_ref) that
\* depends neither on the lowest bit of b1 nor on the fault-status byte.
C9_ResistanceFromAdcCode ==
  Polled =>
    LET adc == MAX31865_rx_buffer[1] * 128 + (MAX31865_rx_buffer[2] \div 2)
    IN  /\ adc \in 0..32767
        /\ data = adc * MAX31865_R_REF_Tenths
        /\ 0 <= data
        /\ data * 10 < MAX31865_R_REF_Tenths * DataUnitsPerOhm

\* C9 witness: the largest code, read with the fault bit set and a fault
\* status that took the re-initialisation path.
C9_Witness ==
  /\ FaultSeen
  /\ MAX31865_rx_buffer[1] = 255
  /\ MAX31865_rx_buffer[2] = 255
  /\ data = 32767 * MAX31865_R_REF_Tenths

\* the bus traffic of a poll followed by the recovery's own transaction
RecoveryLog ==
  PollLog(MAX31865_rx_buffer)
    \o <<NSS_ON, Event("TX", <<128, 211>>), NSS_OFF>>

\* C10: a poll that reads a nonzero fault status leaves 0xD3 (3-wire) as
\* the last configuration written, whatever num_wires the caller gave
\* MAX31865_Init; the write is a transaction of its own, begun after the
\* poll released chip-select; and 0xD3 stays until MAX31865_Init is called.
C10_RecoveryWritesThreeWire ==
  /\ [](FaultSeen => /\ Configuration_register = 211
                     /\ spi_log = RecoveryLog
                     /\ WellFramed("OFF", spi_log)
                     /\ NSS = "OFF")
  /\ [][(Configuration_register = 211 /\ call' # "MAX31865_Init")
          => Configuration_register' = 211]_vars

\* C10 witness: MAX31865_Init for 2 or 4 wires, then a poll that read a
\* fault: the register holds 0xD3.
C10_Witness ==
  /\ num_wires \in {2, 4}
  /\ FaultSeen
  /\ Configuration_register = 211

=============================================================================
